---------------------------- MODULE Spec2Model ----------------------------
(***************************************************************************)
(* A model of the per-connection engine of the HTTP server in              *)
(* src/src/main.rs: request-line parsing, percent decoding/encoding,       *)
(* response framing and the persistent-connection loop of handle_client.   *)
(*                                                                         *)
(* Text is modelled as it is in the program: a string is a sequence of     *)
(* Unicode scalar values (integers), a byte string a sequence of 0..255.   *)
(* For ASCII text the two coincide.  String literals of the source are     *)
(* written as their character codes, with the literal in a comment.        *)
(***************************************************************************)
EXTENDS Integers, Sequences, FiniteSets, TLC

(***************************************************************************)
(* Bounds of the model.                                                    *)
(***************************************************************************)
\* The client's input is a concatenation of at most MaxLines lines.
MaxLines == 4
\* A failing write_all has put at most MaxCut bytes of its buffer on the
\* stream before the error.
MaxCut == 2
\* With two connections, each client's input is at most MaxConnLines lines.
MaxConnLines == 2
\* An argument of the codec is a concatenation of at most MaxPieces pieces.
MaxPieces == 3
\* A request line given to parse_request_line has at most MaxWords words.
MaxWords == 4

(***************************************************************************)
(* Option values.                                                          *)
(***************************************************************************)
None == [ok |-> FALSE]
Some(v) == [ok |-> TRUE, val |-> v]
\* Option<u8> of the closure `read` and of from_str_radix: -1 is None.
NoByte == 0 - 1

(***************************************************************************)
(* String literals of the source.                                          *)
(***************************************************************************)
HttpVersion == <<72, 84, 84, 80, 47, 49, 46, 49, 32>>  \* "HTTP/1.1 "
CRLF == <<13, 10>>  \* "\r\n"
ContentLengthName == <<67, 111, 110, 116, 101, 110, 116, 45, 76, 101, 110, 103, 116, 104, 58, 32>>  \* "Content-Length: "
BadRequestBody == <<60, 104, 116, 109, 108, 62, 98, 97, 100, 32, 114, 101, 113, 117, 101, 115, 116, 115, 60, 47, 104, 116, 109, 108, 62>>  \* "<html>bad requests</html>"
Body404 == <<60, 104, 116, 109, 108, 62, 52, 48, 52, 60, 47, 104, 116, 109, 108, 62>>  \* "<html>404</html>"
Body500 == <<60, 104, 116, 109, 108, 62, 53, 48, 48, 60, 47, 104, 116, 109, 108, 62>>  \* "<html>500</html>"
PageHead == <<60, 104, 116, 109, 108, 62, 60, 109, 101, 116, 97, 32, 99, 104, 97, 114, 115, 101, 116, 61, 34, 117, 116, 102, 45, 56, 34, 32, 47, 62, 60, 98, 111, 100, 121, 62, 60, 117, 108, 62>>  \* "<html><meta charset=\"utf-8\" /><body><ul>"
ItemOpen == <<60, 108, 105, 62, 60, 97, 32, 104, 114, 101, 102, 61, 34>>  \* "<li><a href=\""
ItemMid == <<34, 62>>  \* "\">"
ItemClose == <<60, 47, 97, 62, 60, 47, 108, 105, 62>>  \* "</a></li>"
PageTail == <<60, 47, 117, 108, 62, 60, 47, 98, 111, 100, 121, 62, 60, 47, 104, 116, 109, 108, 62>>  \* "</ul></body></html>"
SpaceSep == <<32>>  \* " "
HeaderSep == <<58, 32>>  \* ": "
Slash == <<47>>  \* "/"

(***************************************************************************)
(* Calls with their arguments evaluated first, as the program evaluates    *)
(* them: F is applied to the values of x, y, ...                           *)
(***************************************************************************)
Call1(F(_), x) == CHOOSE r \in {F(a) : a \in {x}} : TRUE
Call2(F(_, _), x, y) == CHOOSE r \in {F(a, b) : a \in {x}, b \in {y}} : TRUE
Call3(F(_, _, _), x, y, z) ==
    CHOOSE r \in {F(a, b, c) : a \in {x}, b \in {y}, c \in {z}} : TRUE
Call4(F(_, _, _, _), x, y, z, u) ==
    CHOOSE r \in {F(a, b, c, d) : a \in {x}, b \in {y}, c \in {z}, d \in {u}} :
        TRUE

(***************************************************************************)
(* Sequence helpers.                                                       *)
(***************************************************************************)
Min(a, b) == IF a < b THEN a ELSE b

\* s[a..b], empty when b < a.
Slice(s, a, b) == IF b < a THEN <<>> ELSE SubSeq(s, a, b)

\* Whether pat occurs in s at index i.
MatchesAt(s, pat, i) ==
    /\ i + Len(pat) - 1 <= Len(s)
    /\ \A k \in 1..Len(pat) : s[i + k - 1] = pat[k]

\* Index of the first occurrence of pat in s at or after i; 0 when none.
FindFrom(s, pat, i) ==
    LET found == {j \in i..Len(s) : MatchesAt(s, pat, j)} IN
    IF found = {} THEN 0
    ELSE CHOOSE j \in found : \A k \in found : j <= k

\* str::split(pat) collected: the pieces between the non-overlapping
\* occurrences of pat, empty pieces included; a string without pat is one piece.
RECURSIVE Split(_, _)
Split(s, pat) ==
    LET i == FindFrom(s, pat, 1) IN
    IF i = 0 THEN <<s>>
    ELSE <<Slice(s, 1, i - 1)>>
             \o Call2(Split, Slice(s, i + Len(pat), Len(s)), pat)

\* char::is_whitespace: the code points with the White_Space property.
IsWhitespace(c) ==
    \/ c \in 9..13
    \/ c \in {32, 133, 160, 5760, 8232, 8233, 8239, 8287, 12288}
    \/ c \in 8192..8202

RECURSIVE TrimStart(_)
TrimStart(s) ==
    IF s # <<>> /\ IsWhitespace(s[1]) THEN Call1(TrimStart, Tail(s)) ELSE s

RECURSIVE TrimEnd(_)
TrimEnd(s) ==
    IF s # <<>> /\ IsWhitespace(s[Len(s)])
    THEN Call1(TrimEnd, Slice(s, 1, Len(s) - 1)) ELSE s

\* str::trim
Trim(s) == Call1(TrimEnd, Call1(TrimStart, s))

\* The concatenation of ss[a], ..., ss[b].
RECURSIVE ConcatRange(_, _, _)
ConcatRange(ss, a, b) ==
    IF a > b THEN <<>>
    ELSE IF a = b THEN ss[a]
    ELSE Call3(ConcatRange, ss, a, (a + b) \div 2)
             \o Call3(ConcatRange, ss, (a + b) \div 2 + 1, b)

\* The concatenation of a sequence of sequences.
Concat(ss) == Call3(ConcatRange, ss, 1, Len(ss))

(***************************************************************************)
(* Number formatting: format!("{}") of an integer and format!("{:X}").     *)
(***************************************************************************)
RECURSIVE ToDecimal(_)
ToDecimal(n) ==
    IF n < 10 THEN <<48 + n>>
    ELSE Append(Call1(ToDecimal, n \div 10), 48 + (n % 10))

HexDigitUpper(d) == IF d < 10 THEN 48 + d ELSE 55 + d

\* Mutant of ToHexUpper: {:02X}, padded with a zero to two digits.
ToHexUpper_Padded(n) == <<HexDigitUpper(n \div 16), HexDigitUpper(n % 16)>>

\* {:X}: upper-case hexadecimal, no padding.
RECURSIVE ToHexUpper(_)
ToHexUpper(n) ==
    IF n < 16 THEN <<HexDigitUpper(n)>>
    ELSE Append(Call1(ToHexUpper, n \div 16), HexDigitUpper(n % 16))

(***************************************************************************)
(* parse_request_line                                                      *)
(***************************************************************************)
\* Mutant of parse_request_line: tokens after the third are ignored.
parse_request_line_AtLeast3(line) ==
    LET s == Split(line, SpaceSep) IN
    IF Len(s) >= 3
    THEN Some([method |-> s[1], path |-> s[2]])
    ELSE None

parse_request_line(line) ==
    LET s == Split(line, SpaceSep) IN
    IF Len(s) = 3
    THEN Some([method |-> s[1], path |-> s[2]])
    ELSE None

(***************************************************************************)
(* status_code_to_string.  Panic stands for the arm panic!("WTF?").        *)
(***************************************************************************)
Panic == <<0 - 1>>

status_code_to_string(code) ==
    CASE code = 200 -> <<79, 75>>  \* "OK"
      [] code = 201 -> <<67, 114, 101, 97, 116, 101, 100>>  \* "Created"
      [] code = 202 -> <<65, 99, 99, 101, 112, 116, 101, 100>>  \* "Accepted"
      [] code = 204 -> <<78, 111, 32, 67, 111, 110, 116, 101, 110, 116>>  \* "No Content"
      [] code = 301 -> <<77, 111, 118, 101, 100, 32, 80, 101, 114, 109, 97, 110, 101, 110, 116, 108, 121>>  \* "Moved Permanently"
      [] code = 302 -> <<70, 111, 117, 110, 100>>  \* "Found"
      [] code = 304 -> <<78, 111, 116, 32, 77, 111, 100, 105, 102, 105, 101, 100>>  \* "Not Modified"
      [] code = 400 -> <<66, 97, 100, 32, 82, 101, 113, 117, 101, 115, 116>>  \* "Bad Request"
      [] code = 401 -> <<85, 110, 97, 117, 116, 104, 111, 114, 105, 122, 101, 100>>  \* "Unauthorized"
      [] code = 403 -> <<70, 111, 114, 98, 105, 100, 100, 101, 110>>  \* "Forbidden"
      [] code = 404 -> <<78, 111, 116, 32, 70, 111, 117, 110, 100>>  \* "Not Found"
      [] code = 405 -> <<77, 101, 116, 104, 111, 100, 32, 78, 111, 116, 32, 65, 108, 108, 111, 119, 101, 100>>  \* "Method Not Allowed"
      [] code = 500 -> <<73, 110, 116, 101, 114, 110, 97, 108, 32, 83, 101, 114, 118, 101, 114, 32, 69, 114, 114, 111, 114>>  \* "Internal Server Error"
      [] code = 501 -> <<78, 111, 116, 32, 73, 109, 112, 108, 101, 109, 101, 110, 116, 101, 100>>  \* "Not Implemented"
      [] code = 502 -> <<66, 97, 100, 32, 71, 97, 116, 101, 119, 97, 121>>  \* "Bad Gateway"
      [] code = 503 -> <<83, 101, 114, 118, 105, 99, 101, 32, 85, 110, 97, 118, 97, 105, 108, 97, 98, 108, 101>>  \* "Service Unavailable"
      [] code = 504 -> <<71, 97, 116, 101, 119, 97, 121, 32, 84, 105, 109, 101, 111, 117, 116>>  \* "Gateway Timeout"
      [] OTHER -> Panic

(***************************************************************************)
(* UTF-8.                                                                  *)
(***************************************************************************)
IsCont(b) == b \in 128..191

\* The length of the well-formed UTF-8 sequence that starts s, 0 when s
\* does not start with one (overlong forms, surrogates and values above
\* U+10FFFF are not well-formed).
Utf8Width(s) ==
    LET n == Len(s) IN
    IF n = 0 THEN 0
    ELSE IF s[1] <= 127 THEN 1
    ELSE IF s[1] \in 194..223
         THEN IF n >= 2 /\ IsCont(s[2]) THEN 2 ELSE 0
    ELSE IF s[1] \in 224..239
         THEN IF /\ n >= 3
                 /\ s[2] \in (IF s[1] = 224 THEN 160..191
                              ELSE IF s[1] = 237 THEN 128..159
                              ELSE 128..191)
                 /\ IsCont(s[3])
              THEN 3 ELSE 0
    ELSE IF s[1] \in 240..244
         THEN IF /\ n >= 4
                 /\ s[2] \in (IF s[1] = 240 THEN 144..191
                              ELSE IF s[1] = 244 THEN 128..143
                              ELSE 128..191)
                 /\ IsCont(s[3])
                 /\ IsCont(s[4])
              THEN 4 ELSE 0
    ELSE 0

\* The scalar value of a well-formed sequence of width w at the head of s.
Utf8Scalar(s, w) ==
    CASE w = 1 -> s[1]
      [] w = 2 -> (s[1] - 192) * 64 + (s[2] - 128)
      [] w = 3 -> (s[1] - 224) * 4096 + (s[2] - 128) * 64 + (s[3] - 128)
      [] w = 4 -> (s[1] - 240) * 262144 + (s[2] - 128) * 4096
                    + (s[3] - 128) * 64 + (s[4] - 128)

\* The validation loop of str::from_utf8: chars are the characters of the
\* bytes already accepted, bytes the ones still to be looked at.
RECURSIVE Utf8Chars(_, _)
Utf8Chars(bytes, chars) ==
    IF bytes = <<>> THEN Some(chars)
    ELSE LET w == Utf8Width(bytes) IN
         IF w = 0 THEN None
         ELSE Call2(Utf8Chars, Slice(bytes, w + 1, Len(bytes)),
                    Append(chars, Utf8Scalar(bytes, w)))

\* str::from_utf8: the characters of a byte string, None when it is not
\* well-formed UTF-8.
from_utf8(bytes) == Call2(Utf8Chars, bytes, <<>>)

\* char::encode_utf8
encode_utf8(ch) ==
    IF ch < 128 THEN <<ch>>
    ELSE IF ch < 2048 THEN <<192 + (ch \div 64), 128 + (ch % 64)>>
    ELSE IF ch < 65536
         THEN <<224 + (ch \div 4096), 128 + ((ch \div 64) % 64), 128 + (ch % 64)>>
    ELSE <<240 + (ch \div 262144), 128 + ((ch \div 4096) % 64),
           128 + ((ch \div 64) % 64), 128 + (ch % 64)>>

(***************************************************************************)
(* decode_url                                                              *)
(***************************************************************************)
\* Mutant of HexValue: only the decimal digits are taken for digits.
HexValue_DigitsOnly(c) == IF c \in 48..57 THEN c - 48 ELSE NoByte

\* char::to_digit(16): the value of a hexadecimal digit, -1 otherwise.
HexValue(c) ==
    IF c \in 48..57 THEN c - 48
    ELSE IF c \in 65..70 THEN c - 55
    ELSE IF c \in 97..102 THEN c - 87
    ELSE NoByte

\* u8::from_str_radix(hex, 16).ok() of a two-character string: one leading
\* '+' is accepted as a sign and must be followed by a digit.
from_str_radix(h1, h2) ==
    IF h1 = 43
    THEN HexValue(h2)
    ELSE IF HexValue(h1) = NoByte \/ HexValue(h2) = NoByte THEN NoByte
    ELSE 16 * HexValue(h1) + HexValue(h2)

\* The closure `read` with the iterator at index i of s: the next two
\* characters as a byte.
read(s, i) ==
    IF i + 1 > Len(s) THEN NoByte ELSE from_str_radix(s[i], s[i + 1])

RECURSIVE decode_from(_, _, _)
RECURSIVE decode_collect(_, _, _, _)
\* The while loop of decode_url, with the iterator at index i of s.
decode_from(s, i, out) ==
    IF i > Len(s) THEN Some(out)
    ELSE IF s[i] = 37
         THEN LET byte == read(s, i + 1) IN
              IF byte = NoByte THEN None
              ELSE IF byte < 127
                   THEN Call3(decode_from, s, i + 3, Append(out, byte))
              ELSE Call4(decode_collect, s, i + 3, out, <<byte>>)
    ELSE Call3(decode_from, s, i + 1, Append(out, s[i]))

\* Mutant of decode_collect: the byte is pushed as the character of the
\* same number, no sequence is collected.
decode_collect_Latin1(s, i, out, codepoints) ==
    Call3(decode_from, s, i, out \o codepoints)

\* The inner loop collecting the bytes of one multi-byte sequence.
decode_collect(s, i, out, codepoints) ==
    LET r == from_utf8(codepoints) IN
    IF r.ok THEN Call3(decode_from, s, i, out \o r.val)
    ELSE IF i > Len(s) THEN None
    ELSE IF s[i] # 37 THEN None
    ELSE LET b == read(s, i + 1) IN
         IF b = NoByte THEN None
         ELSE Call4(decode_collect, s, i + 3, out, Append(codepoints, b))

decode_url(s) == Call3(decode_from, s, 1, <<>>)

(***************************************************************************)
(* encode_url                                                              *)
(***************************************************************************)
IsUnreserved(ch) ==
    \/ ch \in 65..90 \/ ch \in 97..122   \* is_ascii_alphabetic
    \/ ch \in 48..57                     \* is_ascii_digit
    \/ ch \in {45, 95, 46, 126}          \* '-' '_' '.' '~'

RECURSIVE EscapeBytes(_)
EscapeBytes(bytes) ==
    IF bytes = <<>> THEN <<>>
    ELSE <<37>> \o ToHexUpper(Head(bytes)) \o Call1(EscapeBytes, Tail(bytes))

RECURSIVE encode_url(_)
encode_url(s) ==
    IF s = <<>> THEN <<>>
    ELSE (IF IsUnreserved(Head(s)) THEN <<Head(s)>>
          ELSE Call1(EscapeBytes, encode_utf8(Head(s))))
         \o Call1(encode_url, Tail(s))

(***************************************************************************)
(* The filesystem the server runs against, and gen_fs_page.                *)
(***************************************************************************)
\* What the filesystem holds at a path: a regular file with its bytes, a
\* directory with its entries' names in enumeration order, or nothing.
FsEntry(path) ==
    IF path = <<47, 102>>       \* "/f"
    THEN [kind |-> "file", bytes |-> <<104, 105>>]                \* "hi"
    ELSE IF path = <<47, 100>> \/ path = <<47, 100, 47>>  \* "/d", "/d/"
    THEN [kind |-> "dir", names |-> << <<97>>, <<98, 32, 99>> >>] \* "a", "b c"
    ELSE [kind |-> "absent"]

\* io::Result<Vec<u8>> values.
FsOk(bytes) == [kind |-> "Ok", bytes |-> bytes]
FsNotFound == [kind |-> "NotFound"]
FsOther == [kind |-> "Other"]

\* String::into_bytes: the UTF-8 encoding of a string.
Utf8Bytes(s) == Concat([i \in 1..Len(s) |-> encode_utf8(s[i])])

into_bytes(s) == Call1(Utf8Bytes, s)

\* Mutant of ListItem: the '/' is pushed without looking at the end of the
\* path.
ListItem_AlwaysSlash(path, name) ==
    ItemOpen \o path \o Slash \o Call1(encode_url, name) \o ItemMid \o name
        \o ItemClose

\* One <li> of the listing of directory `path` for the entry `name`.
ListItem(path, name) ==
    LET pathname == IF Len(path) > 0 /\ path[Len(path)] = 47
                    THEN path ELSE path \o Slash
    IN ItemOpen \o pathname \o Call1(encode_url, name) \o ItemMid \o name
           \o ItemClose

\* The <li> elements of the entries, in the order read_dir yields them.
ListItems(path, names) ==
    Concat([i \in 1..Len(names) |-> Call2(ListItem, path, names[i])])

\* The page gen_fs_page builds for a directory.
DirPage(path, names) == into_bytes(PageHead \o ListItems(path, names) \o PageTail)

\* The results gen_fs_page(path) can return: metadata, read_dir, an entry of
\* the iteration or fs::read may each fail with an error other than NotFound;
\* metadata of a path that holds nothing fails with NotFound.
gen_fs_page(path) ==
    LET e == FsEntry(path) IN
    CASE e.kind = "absent" -> {FsNotFound, FsOther}
      [] e.kind = "dir" -> {FsOk(DirPage(path, e.names)), FsOther}
      [] e.kind = "file" -> {FsOk(e.bytes), FsOther}

(***************************************************************************)
(* write_reply: the formatted head of a reply.                             *)
(***************************************************************************)
\* Mutant of ReplyHead: the blank line that ends the head is left out.
ReplyHead_NoBlankLine(code, content) ==
    HttpVersion \o ToDecimal(code) \o SpaceSep \o status_code_to_string(code)
        \o CRLF \o ContentLengthName \o ToDecimal(Len(content)) \o CRLF

\* format!("HTTP/1.1 {} {}\r\nContent-Length: {}\r\n\r\n", code, reason, len)
ReplyHead(code, content) ==
    HttpVersion \o ToDecimal(code) \o SpaceSep \o status_code_to_string(code)
        \o CRLF \o ContentLengthName \o ToDecimal(Len(content)) \o CRLF \o CRLF

\* Mutant of DispatchReply: the two error arms are exchanged.
DispatchReply_Swapped(r) ==
    CASE r.kind = "Ok" -> [code |-> 200, content |-> r.bytes]
      [] r.kind = "NotFound" -> [code |-> 500, content |-> Body500]
      [] OTHER -> [code |-> 404, content |-> Body404]

\* Mutant of DispatchReply: the catch-all arm replies 505, a code the
\* reason-phrase table does not hold.
DispatchReply_505(r) ==
    CASE r.kind = "Ok" -> [code |-> 200, content |-> r.bytes]
      [] r.kind = "NotFound" -> [code |-> 404, content |-> Body404]
      [] OTHER -> [code |-> 505, content |-> Body500]

\* The match of handle_client on the result of gen_fs_page: the code and
\* the content passed to write_reply.
DispatchReply(r) ==
    CASE r.kind = "Ok" -> [code |-> 200, content |-> r.bytes]
      [] r.kind = "NotFound" -> [code |-> 404, content |-> Body404]
      [] OTHER -> [code |-> 500, content |-> Body500]

\* write_bad_reply's arguments to write_reply.
BadReply == [code |-> 500, content |-> BadRequestBody]

(***************************************************************************)
(* The client's input.                                                     *)
(***************************************************************************)
Lines ==
    { <<71, 32, 47, 102, 32, 72, 13, 10>>,          \* "G /f H\r\n"
      <<71, 32, 47, 37, 54, 52, 32, 72, 13, 10>>,   \* "G /%64 H\r\n"
      <<71, 32, 47, 37, 71, 49, 32, 72, 13, 10>>,   \* "G /%G1 H\r\n"
      <<65, 58, 32, 98, 13, 10>>,                   \* "A: b\r\n"
      <<65, 58, 32, 98, 58, 32, 99, 13, 10>>,       \* "A: b: c\r\n"
      <<13, 10>> }                                  \* "\r\n"

Inputs == { Concat(ls) : ls \in UNION { [1..n -> Lines] : n \in 0..MaxLines } }

(***************************************************************************)
(* State.                                                                  *)
(***************************************************************************)
VARIABLES
    input,     \* the bytes the client sends before closing its side
    rpos,      \* how many of them read_line has consumed
    out,       \* the bytes written on the stream
    pc,        \* where handle_client is
    buffer,    \* local `buffer`: the request line as read
    path,      \* local `path`: the decoded path
    line,      \* local `line`: the header line as read
    headers,   \* local `headers`
    fsResult,  \* the result of the last gen_fs_page call
    reply,     \* the write_reply call in progress
    result,    \* what handle_client returned
    why,       \* which exit of handle_client was taken
    lastOp,    \* the last operation attempted on the stream
    lastN,     \* what the last read_line returned
    started,   \* how many request lines were read
    reqs,      \* the decoded paths of the requests accepted so far
    ioFailed,  \* whether an operation on the stream has failed
    sent,      \* the replies whose bytes are all on the stream
    running,   \* which handle_client task the variables above belong to
    parked,    \* the other spawned task, suspended at an await
    call       \* a call of one of the pure functions: name, argument, result

\* The state of one handle_client task: its stream and its locals.
task == <<input, rpos, out, pc, buffer, path, line, headers, fsResult, reply,
          result, why, lastOp, lastN, started, reqs, ioFailed, sent>>

vars == <<input, rpos, out, pc, buffer, path, line, headers, fsResult, reply,
          result, why, lastOp, lastN, started, reqs, ioFailed, sent,
          running, parked, call>>

\* No second task has been spawned.
NoTask == [pc |-> "none"]

\* No function has been called.
NoCall == [fn |-> "none", arg |-> <<>>, ret |-> <<>>]

NoReply == [code |-> 0, content |-> <<>>, head |-> <<>>, from |-> "none",
            after |-> "none"]

\* handle_client as it starts on the stream of a connection whose client
\* sends inp.
Started(inp) ==
    /\ input = inp
    /\ rpos = 0
    /\ out = <<>>
    /\ pc = "AwaitingRequestLine"
    /\ buffer = <<>>
    /\ path = <<>>
    /\ line = <<>>
    /\ headers = <<>>
    /\ fsResult = [kind |-> "None"]
    /\ reply = NoReply
    /\ result = "running"
    /\ why = "running"
    /\ lastOp = "none"
    /\ lastN = 0
    /\ started = 0
    /\ reqs = <<>>
    /\ ioFailed = FALSE
    /\ sent = <<>>

Init ==
    /\ \E inp \in Inputs : Started(inp)
    /\ running = 1
    /\ parked = NoTask
    /\ call = NoCall

(***************************************************************************)
(* Steps of handle_client.                                                 *)
(***************************************************************************)
\* BufReader::read_line with pos bytes of inp consumed: the unread bytes up
\* to and including the next "\n", or up to the end of the input.
LineAt(inp, pos) ==
    LET i == FindFrom(inp, <<10>>, pos + 1) IN
    Slice(inp, pos + 1, IF i = 0 THEN Len(inp) ELSE i)

NextLine == LineAt(input, rpos)

\* Mutant of Return: the `return` is a `continue`, the request loop starts
\* over instead of ending.
Return_Continue(reason, res) ==
    /\ pc' = "AwaitingRequestLine"
    /\ result' = res
    /\ why' = reason

\* handle_client returns: `res` is "Ok" or "Err", `reason` the exit taken.
Return(reason, res) ==
    /\ pc' = "Terminated"
    /\ result' = res
    /\ why' = reason

\* Mutant of IoError: the error is swallowed and the operation tried again.
IoError_Ignored ==
    /\ ioFailed' = TRUE
    /\ UNCHANGED <<pc, result, why>>

\* A stream operation fails and `?` returns the error.
IoError ==
    /\ ioFailed' = TRUE
    /\ Return("io", "Err")

\* The call write_reply(writer, r.code, r.content): the head is formatted
\* (which panics on a code without a reason phrase) before the first write.
BeginWrite(r, from, after) ==
    IF status_code_to_string(r.code) = Panic
    THEN /\ pc' = "Terminated"
         /\ result' = "Panic"
         /\ why' = "panic"
         /\ UNCHANGED reply
    ELSE /\ pc' = "WritingHead"
         /\ reply' = [code |-> r.code, content |-> r.content,
                      head |-> ReplyHead(r.code, r.content),
                      from |-> from, after |-> after]
         /\ UNCHANGED <<result, why>>

\* Mutant of RejectRequestLine: the failure is ignored and the header block
\* is read.
RejectRequestLine_Continue(reason) ==
    /\ pc' = "ReadingHeaders"
    /\ UNCHANGED <<result, why>>

\* The request line does not parse, or its path does not decode.
RejectRequestLine(reason) == Return(reason, "Ok")

\* read_line returned 0 while awaiting a request line.
RequestEof == Return("eof", "Ok")

\* Lines 158-173: read the request line, parse it and decode its path.
ReadRequestLine ==
    /\ pc = "AwaitingRequestLine"
    /\ lastOp' = "read_request"
    /\ UNCHANGED <<input, out, line, headers, fsResult, reply, sent>>
    /\ UNCHANGED <<running, parked, call>>
    /\ \/ /\ IoError
          /\ UNCHANGED <<rpos, buffer, path, lastN, started, reqs>>
       \/ \E bytes \in {NextLine} : \E text \in {from_utf8(bytes)} :
          IF ~text.ok
          THEN /\ IoError   \* InvalidData
               /\ rpos' = rpos + Len(bytes)
               /\ UNCHANGED <<buffer, path, lastN, started, reqs>>
          ELSE
          /\ UNCHANGED ioFailed
          /\ rpos' = rpos + Len(bytes)
          /\ buffer' = text.val
          /\ lastN' = Len(bytes)
          /\ IF Len(bytes) = 0
             THEN /\ RequestEof
                  /\ UNCHANGED <<path, started, reqs>>
             ELSE
             /\ started' = started + 1
             /\ \E parsed \in {parse_request_line(Trim(text.val))} :
                IF ~parsed.ok
                THEN /\ RejectRequestLine("badline")
                     /\ UNCHANGED <<path, reqs>>
                ELSE \E decoded \in {decode_url(parsed.val.path)} :
                     IF ~decoded.ok
                     THEN /\ RejectRequestLine("baddecode")
                          /\ UNCHANGED <<path, reqs>>
                     ELSE /\ path' = decoded.val
                          /\ reqs' = Append(reqs, decoded.val)
                          /\ pc' = "ReadingHeaders"
                          /\ UNCHANGED <<result, why>>

\* Mutant of HeaderEof: the end of the stream is taken for the end of the
\* header block.
HeaderEof_Dispatch ==
    /\ pc' = "Dispatching"
    /\ UNCHANGED <<result, why>>

\* read_line returned 0 inside the header block.
HeaderEof == Return("eof", "Ok")

\* Mutant of BadHeaderLine: the `return` after write_bad_reply is missing.
BadHeaderLine_NoReturn == BeginWrite(BadReply, "badheader", "loop")

\* Mutant of BadHeaderLine: the malformed line is skipped and the header
\* loop goes on.
BadHeaderLine_Skipped == UNCHANGED <<pc, reply, result, why>>

\* Lines 187-192: a header line that does not split into two parts.
BadHeaderLine == BeginWrite(BadReply, "badheader", "return")

\* HashMap::insert
Insert(map, k, v) ==
    [x \in (DOMAIN map) \cup {k} |-> IF x = k THEN v ELSE map[x]]

\* Lines 176-195: one iteration of the header loop.  `line` and `headers`
\* are created when the loop is entered (an empty `line` at that point).
ReadHeaderLine ==
    /\ pc = "ReadingHeaders"
    /\ lastOp' = "read_header"
    /\ UNCHANGED <<input, out, buffer, path, fsResult, started, reqs, sent>>
    /\ UNCHANGED <<running, parked, call>>
    /\ LET hdrs == IF lastOp = "read_request" THEN <<>> ELSE headers IN
       \/ /\ IoError
          /\ headers' = hdrs
          /\ UNCHANGED <<rpos, line, lastN, reply>>
       \/ \E bytes \in {NextLine} : \E text \in {from_utf8(bytes)} :
          IF ~text.ok
          THEN /\ IoError   \* InvalidData
               /\ rpos' = rpos + Len(bytes)
               /\ headers' = hdrs
               /\ UNCHANGED <<line, lastN, reply>>
          ELSE
          /\ UNCHANGED ioFailed
          /\ rpos' = rpos + Len(bytes)
          /\ lastN' = Len(bytes)
          /\ IF Len(bytes) = 0
             THEN /\ HeaderEof
                  /\ line' = <<>>
                  /\ headers' = hdrs
                  /\ UNCHANGED reply
             ELSE
             \E myline \in {Trim(text.val)} :
             \E kvs \in {Split(myline, HeaderSep)} :
             IF Len(myline) = 0
             THEN /\ pc' = "Dispatching"
                  /\ line' = text.val
                  /\ headers' = hdrs
                  /\ UNCHANGED <<reply, result, why>>
             ELSE IF Len(kvs) # 2
             THEN /\ BadHeaderLine
                  /\ line' = text.val
                  /\ headers' = hdrs
             ELSE /\ headers' = Insert(hdrs, Trim(kvs[1]), Trim(kvs[2]))
                  /\ line' = <<>>   \* line.clear()
                  /\ UNCHANGED <<pc, reply, result, why>>

\* Mutant of Dispatch: the result of gen_fs_page is dropped and the loop
\* goes on without a reply.
Dispatch_NoReply ==
    /\ pc = "Dispatching"
    /\ \E r \in Call1(gen_fs_page, path) : fsResult' = r
    /\ pc' = "AwaitingRequestLine"
    /\ UNCHANGED <<input, rpos, out, buffer, path, line, headers, lastOp,
                   lastN, started, reqs, ioFailed, sent, reply, result, why>>
    /\ UNCHANGED <<running, parked, call>>

\* Lines 199-205: gen_fs_page and the call of write_reply it leads to.
Dispatch ==
    /\ pc = "Dispatching"
    /\ \E r \in Call1(gen_fs_page, path) :
          /\ fsResult' = r
          /\ BeginWrite(DispatchReply(r), "dispatch", "loop")
    /\ UNCHANGED <<input, rpos, out, buffer, path, line, headers, lastOp,
                   lastN, started, reqs, ioFailed, sent>>
    /\ UNCHANGED <<running, parked, call>>

\* The numbers of bytes a failing write_all of buf can have written.
Cuts(buf) == 0..Min(Len(buf) - 1, MaxCut)

\* Mutant of WriteFails: the failed write_all is started again.
WriteFails_Retry(buf) ==
    /\ \E k \in Cuts(buf) : out' = out \o Slice(buf, 1, k)
    /\ UNCHANGED <<pc, result, why, ioFailed>>

\* A write_all that fails after k bytes of buf.
WriteFails(buf) ==
    /\ \E k \in Cuts(buf) : out' = out \o Slice(buf, 1, k)
    /\ IoError

\* Line 50: stream.write_all(reply.as_bytes()).await?
WriteHead ==
    /\ pc = "WritingHead"
    /\ lastOp' = "write_head"
    /\ UNCHANGED <<input, rpos, buffer, path, line, headers, fsResult, reply,
                   lastN, started, reqs, sent>>
    /\ UNCHANGED <<running, parked, call>>
    /\ \/ /\ out' = out \o reply.head
          /\ pc' = "WritingBody"
          /\ UNCHANGED <<result, why, ioFailed>>
       \/ WriteFails(reply.head)

\* Line 51: stream.write_all(content).await?
WriteBody ==
    /\ pc = "WritingBody"
    /\ lastOp' = "write_body"
    /\ UNCHANGED <<input, rpos, buffer, path, line, headers, fsResult, reply,
                   lastN, started, reqs>>
    /\ UNCHANGED <<running, parked, call>>
    /\ \/ /\ out' = out \o reply.content
          /\ sent' = Append(sent, [code |-> reply.code,
                                   content |-> reply.content,
                                   from |-> reply.from])
          /\ pc' = "Flushing"
          /\ UNCHANGED <<result, why, ioFailed>>
       \/ /\ WriteFails(reply.content)
          /\ UNCHANGED sent

\* Mutant of AfterReply: the connection is closed after every reply.
AfterReply_AlwaysReturn == Return("badheader", "Ok")

\* What follows a write_reply that returned Ok: the next iteration of the
\* request loop after a dispatch reply, `return Ok(())` after write_bad_reply.
AfterReply ==
    IF reply.after = "loop"
    THEN /\ pc' = "AwaitingRequestLine"
         /\ UNCHANGED <<result, why>>
    ELSE Return("badheader", "Ok")

\* Lines 52-53: stream.flush().await?; Ok(())
Flush ==
    /\ pc = "Flushing"
    /\ lastOp' = "flush"
    /\ UNCHANGED <<input, rpos, out, buffer, path, line, headers, fsResult,
                   reply, lastN, started, reqs, sent>>
    /\ UNCHANGED <<running, parked, call>>
    /\ \/ /\ AfterReply
          /\ UNCHANGED ioFailed
       \/ IoError

Next ==
    \/ ReadRequestLine
    \/ ReadHeaderLine
    \/ Dispatch
    \/ WriteHead
    \/ WriteBody
    \/ Flush

Spec == Init /\ [][Next]_vars

\* Every stream read, stream write and filesystem call eventually completes.
FairSpec == Spec /\ WF_vars(Next)

(***************************************************************************)
(* main: the accept loop spawns one handle_client task per connection; the *)
(* tasks run interleaved.  The variables of `task` are those of the task   *)
(* that takes the next step, the other task is kept in `parked`.           *)
(***************************************************************************)
\* The lines the client of connection i sends: the first client asks for
\* the file "/f", the second for "/x", which the filesystem does not hold.
ConnLines(i) ==
    { IF i = 1 THEN <<71, 32, 47, 102, 32, 72, 13, 10>>   \* "G /f H\r\n"
               ELSE <<71, 32, 47, 120, 32, 72, 13, 10>>,  \* "G /x H\r\n"
      <<13, 10>> }                                        \* "\r\n"

ConnInputs(i) ==
    { Concat(ls) :
        ls \in UNION { [1..n -> ConnLines(i)] : n \in 0..MaxConnLines } }

\* The state of the task the variables belong to, as a value.
Park ==
    [input |-> input, rpos |-> rpos, out |-> out, pc |-> pc,
     buffer |-> buffer, path |-> path, line |-> line, headers |-> headers,
     fsResult |-> fsResult, reply |-> reply, result |-> result, why |-> why,
     lastOp |-> lastOp, lastN |-> lastN, started |-> started, reqs |-> reqs,
     ioFailed |-> ioFailed, sent |-> sent]

\* A task as tokio::task::spawn creates it for a connection whose client
\* sends inp: handle_client about to run, nothing read or written.
Fresh(inp) ==
    [input |-> inp, rpos |-> 0, out |-> <<>>, pc |-> "AwaitingRequestLine",
     buffer |-> <<>>, path |-> <<>>, line |-> <<>>, headers |-> <<>>,
     fsResult |-> [kind |-> "None"], reply |-> NoReply, result |-> "running",
     why |-> "running", lastOp |-> "none", lastN |-> 0, started |-> 0,
     reqs |-> <<>>, ioFailed |-> FALSE, sent |-> <<>>]

\* Mutant of Resume: `path` is one variable shared by the tasks instead of
\* a local of each.
Resume_SharedPath(t) ==
    /\ input' = t.input
    /\ rpos' = t.rpos
    /\ out' = t.out
    /\ pc' = t.pc
    /\ buffer' = t.buffer
    /\ path' = path
    /\ line' = t.line
    /\ headers' = t.headers
    /\ fsResult' = t.fsResult
    /\ reply' = t.reply
    /\ result' = t.result
    /\ why' = t.why
    /\ lastOp' = t.lastOp
    /\ lastN' = t.lastN
    /\ started' = t.started
    /\ reqs' = t.reqs
    /\ ioFailed' = t.ioFailed
    /\ sent' = t.sent

\* The task t goes on with its own stream and its own locals (the future of
\* `async move` owns them).
Resume(t) ==
    /\ input' = t.input
    /\ rpos' = t.rpos
    /\ out' = t.out
    /\ pc' = t.pc
    /\ buffer' = t.buffer
    /\ path' = t.path
    /\ line' = t.line
    /\ headers' = t.headers
    /\ fsResult' = t.fsResult
    /\ reply' = t.reply
    /\ result' = t.result
    /\ why' = t.why
    /\ lastOp' = t.lastOp
    /\ lastN' = t.lastN
    /\ started' = t.started
    /\ reqs' = t.reqs
    /\ ioFailed' = t.ioFailed
    /\ sent' = t.sent

\* Lines 220-232: a second connection is accepted and its task spawned.
Accept ==
    /\ parked = NoTask
    /\ \E inp \in ConnInputs(2) : parked' = Fresh(inp)
    /\ UNCHANGED <<task, running, call>>

\* The scheduler suspends the task at its await and polls the other one.
Switch ==
    /\ parked # NoTask
    /\ parked' = Park
    /\ Resume(parked)
    /\ running' = 3 - running
    /\ UNCHANGED call

MultiInit ==
    /\ \E inp \in ConnInputs(1) : Started(inp)
    /\ running = 1
    /\ parked = NoTask
    /\ call = NoCall

MultiNext ==
    \/ Accept
    \/ Switch
    \/ ReadRequestLine
    \/ ReadHeaderLine
    \/ Dispatch
    \/ WriteHead
    \/ WriteBody
    \/ Flush

MultiSpec == MultiInit /\ [][MultiNext]_vars

(***************************************************************************)
(* The pure functions, called on arguments of bounded sets.                *)
(***************************************************************************)
\* The pieces the arguments of the codec are made of.
Pieces ==
    { <<97>>,            \* "a"
      <<10>>,            \* "\n"
      <<32>>,            \* " "
      <<37>>,            \* "%"
      <<65>>,            \* "A"
      <<52, 49>>,        \* "41"
      <<43, 49>>,        \* "+1"
      <<71, 49>>,        \* "G1"
      <<37, 55, 70>>,    \* "%7F"
      <<37, 69, 52>>,    \* "%E4"
      <<37, 66, 56>>,    \* "%B8"
      <<37, 65, 68>>,    \* "%AD"
      <<20013>> }        \* U+4E2D

\* Every ASCII character and some characters of each UTF-8 width.
SingleChars ==
    (0..127) \cup {128, 233, 2047, 2048, 20013, 65535, 65536, 1114111}

\* The words request lines are made of.
Words ==
    { <<>>,                                   \* ""
      <<71, 69, 84>>,                         \* "GET"
      <<47, 97, 47, 98>>,                     \* "/a/b"
      <<72, 84, 84, 80, 47, 49, 46, 49>>,     \* "HTTP/1.1"
      <<101, 120, 116, 114, 97>> }            \* "extra"

\* ws[1] " " ws[2] " " ... ws[n]
Join(ws) ==
    Concat([i \in 1..(2 * Len(ws) - 1) |->
               IF i % 2 = 1 THEN ws[(i + 1) \div 2] ELSE SpaceSep])

\* The paths gen_fs_page is called with.
Paths == { <<47, 102>>, <<47, 100>>, <<47, 100, 47>>, <<47, 120>> }  \* "/f", "/d", "/d/", "/x"

Args ==
    { Concat(ps) : ps \in UNION { [1..n -> Pieces] : n \in 0..MaxPieces } }
        \cup { <<c>> : c \in SingleChars }
        \cup { Join(ws) : ws \in UNION { [1..n -> Words] : n \in 1..MaxWords } }
        \cup Paths

\* No connection is open: the task variables keep the values they have
\* before anything is read.
CallInit ==
    /\ Started(<<>>)
    /\ running = 1
    /\ parked = NoTask
    /\ \E a \in Args : call = [fn |-> "none", arg |-> a, ret |-> <<>>]

CallDecode ==
    /\ call.fn = "none"
    /\ call' = [fn |-> "decode_url", arg |-> call.arg,
                ret |-> Call1(decode_url, call.arg)]
    /\ UNCHANGED <<task, running, parked>>

CallEncode ==
    /\ call.fn = "none"
    /\ call' = [fn |-> "encode_url", arg |-> call.arg,
                ret |-> Call1(encode_url, call.arg)]
    /\ UNCHANGED <<task, running, parked>>

\* decode_url applied to what encode_url returned for call.arg.
CallDecodeEncoded ==
    /\ call.fn = "encode_url"
    /\ call' = [fn |-> "decode_encoded", arg |-> call.arg,
                ret |-> Call1(decode_url, call.ret)]
    /\ UNCHANGED <<task, running, parked>>

CallParse ==
    /\ call.fn = "none"
    /\ call' = [fn |-> "parse_request_line", arg |-> call.arg,
                ret |-> Call1(parse_request_line, call.arg)]
    /\ UNCHANGED <<task, running, parked>>

CallGenFsPage ==
    /\ call.fn = "none"
    /\ \E r \in Call1(gen_fs_page, call.arg) :
          call' = [fn |-> "gen_fs_page", arg |-> call.arg, ret |-> r]
    /\ UNCHANGED <<task, running, parked>>

CallNext ==
    \/ CallDecode
    \/ CallEncode
    \/ CallDecodeEncoded
    \/ CallParse
    \/ CallGenFsPage

CallSpec == CallInit /\ [][CallNext]_vars

(***************************************************************************)
(* Vocabulary of the properties.                                           *)
(***************************************************************************)
IsPrefix(p, s) == Len(p) <= Len(s) /\ p = Slice(s, 1, Len(p))

\* A response as the wire protocol defines it: the status line, the
\* Content-Length header, the blank line, the body.
StatusLine(code) ==
    <<72, 84, 84, 80, 47, 49, 46, 49>>     \* "HTTP/1.1"
        \o <<32>> \o ToDecimal(code) \o <<32>> \o status_code_to_string(code)
        \o <<13, 10>>

ContentLengthHeader(n) ==
    <<67, 111, 110, 116, 101, 110, 116, 45, 76, 101, 110, 103, 116, 104>>  \* "Content-Length"
        \o <<58, 32>> \o ToDecimal(n) \o <<13, 10>>

Response(code, body) ==
    StatusLine(code) \o ContentLengthHeader(Len(body)) \o <<13, 10>> \o body

\* The bytes of the complete responses of a sequence of replies.
Rendered(replies) ==
    Concat([i \in 1..Len(replies) |->
               Response(replies[i].code, replies[i].content)])

\* What the stream holds beyond the complete responses.
Partial == Slice(out, Len(Rendered(sent)) + 1, Len(out))

StatusCodes == {200, 404, 500}

\* The decoded paths of the requests of inp from position pos on, when what
\* is left of inp is a sequence of well-formed requests (a request line that
\* parses and whose path decodes, header lines that split in two, a blank
\* line) and nothing else; None otherwise.
RECURSIVE RequestPaths(_, _, _, _)
RequestPaths(inp, pos, inHeaders, acc) ==
    LET bytes == LineAt(inp, pos)
        text == from_utf8(bytes)
        nxt == pos + Len(bytes)
    IN
    IF Len(bytes) = 0 THEN (IF inHeaders THEN None ELSE Some(acc))
    ELSE IF ~text.ok THEN None
    ELSE IF ~inHeaders
    THEN LET p == parse_request_line(Trim(text.val)) IN
         IF ~p.ok THEN None
         ELSE LET d == decode_url(p.val.path) IN
              IF ~d.ok THEN None
              ELSE Call4(RequestPaths, inp, nxt, TRUE, Append(acc, d.val))
    ELSE LET m == Trim(text.val) IN
         IF m = <<>> THEN Call4(RequestPaths, inp, nxt, FALSE, acc)
         ELSE IF Len(Split(m, HeaderSep)) # 2 THEN None
         ELSE Call4(RequestPaths, inp, nxt, TRUE, acc)

WellFormedRequests == RequestPaths(input, 0, FALSE, <<>>)

\* Reply s is what the filesystem responder can give for path p.
Answers(s, p) ==
    /\ s.from = "dispatch"
    /\ \E r \in gen_fs_page(p) :
          /\ r.kind = "Ok" => s.code = 200 /\ s.content = r.bytes
          /\ r.kind = "NotFound" => s.code = 404
          /\ r.kind = "Other" => s.code = 500

\* The request line does not parse into three tokens, or its path does not
\* decode.
Rejected(requestLine) ==
    LET p == parse_request_line(Trim(requestLine)) IN
    IF ~p.ok THEN TRUE ELSE ~decode_url(p.val.path).ok

\* A non-empty header line that does not split on ": " into two parts.
Malformed(headerLine) ==
    LET m == Trim(headerLine) IN
    Len(m) > 0 /\ Len(Split(m, HeaderSep)) # 2

Writing == {"WritingHead", "WritingBody", "Flushing"}

(***************************************************************************)
(* C1.                                                                     *)
(***************************************************************************)
\* C1 as stated: once handle_client has terminated, also after a stream
\* write that failed part-way through write_reply, the stream holds only
\* complete responses, one for every request read except possibly the last.
C1_NeverPartial ==
    pc = "Terminated" =>
        /\ out = Rendered(sent)
        /\ Len(sent) \in {started - 1, started}

\* C1 as amended: every request read gets at most one response and only the
\* last request read can be without one; the stream holds the complete
\* responses followed by a prefix of the response being written; when
\* handle_client has terminated and no stream operation failed that prefix
\* is empty, and when a write failed it is all that follows the complete
\* responses.
C1_PartialOnlyOnWriteFailure ==
    /\ Len(sent) \in {started - 1, started} \cap Nat
    /\ IsPrefix(Rendered(sent), out)
    /\ Partial # <<>> =>
          /\ (pc = "WritingBody" \/ (pc = "Terminated" /\ ioFailed))
          /\ Len(sent) = started - 1
          /\ IsPrefix(Partial, Response(reply.code, reply.content))
    /\ (pc = "Terminated" /\ ~ioFailed) => Partial = <<>>

\* A write of the body failed after the whole head and some of the body
\* were written, behind a complete earlier response.
C1_Witness ==
    /\ pc = "Terminated"
    /\ ioFailed
    /\ lastOp = "write_body"
    /\ Len(sent) = 1
    /\ Len(Partial) > Len(reply.head)

(***************************************************************************)
(* C2.                                                                     *)
(***************************************************************************)
\* C2: a dispatch reply that was written is followed by awaiting the next
\* request line; and when the input is k well-formed requests and no stream
\* operation fails, the replies are those of the requests in order, and at
\* the end there are k of them and the stream holds exactly their bytes.
C2_PersistentConnection ==
    /\ (lastOp = "flush" /\ ~ioFailed /\ reply.from = "dispatch")
          => pc = "AwaitingRequestLine"
    /\ (WellFormedRequests.ok /\ ~ioFailed) =>
          LET paths == WellFormedRequests.val IN
          /\ why \in {"running", "eof"}
          /\ Len(sent) <= Len(paths)
          /\ \A i \in 1..Len(sent) : Answers(sent[i], paths[i])
          /\ pc = "Terminated" =>
                /\ Len(sent) = Len(paths)
                /\ out = Rendered(sent)

\* Two pipelined requests for different resources, both answered with 200.
C2_Witness ==
    /\ pc = "Terminated"
    /\ ~ioFailed
    /\ WellFormedRequests.ok
    /\ Len(WellFormedRequests.val) = 2
    /\ Len(sent) = 2
    /\ sent[1].code = 200
    /\ sent[2].code = 200
    /\ sent[1].content # sent[2].content

(***************************************************************************)
(* C3.                                                                     *)
(***************************************************************************)
\* C3: a malformed header line makes handle_client call write_bad_reply
\* (status 500, the bad-request body) and return after it: when that reply
\* has been written it is the only reply to its request, the connection is
\* terminated and nothing more is read, whatever input is left.
C3_BadHeaderLine ==
    /\ (lastOp = "read_header" /\ ~ioFailed /\ lastN > 0 /\ Malformed(line))
          => /\ pc = "WritingHead"
             /\ reply.from = "badheader"
    /\ reply.from = "badheader" =>
          /\ Malformed(line)
          /\ reply.code = 500
          /\ reply.content = <<60, 104, 116, 109, 108, 62, 98, 97, 100, 32,
                               114, 101, 113, 117, 101, 115, 116, 115, 60, 47,
                               104, 116, 109, 108, 62>>  \* "<html>bad requests</html>"
          /\ reply.after = "return"
          /\ pc \in Writing \cup {"Terminated"}
    /\ (lastOp = "flush" /\ ~ioFailed /\ reply.from = "badheader")
          => why = "badheader"
    /\ why = "badheader" =>
          /\ pc = "Terminated"
          /\ result = "Ok"
          /\ lastOp = "flush"
          /\ reply.from = "badheader"
          /\ Len(sent) = started
          /\ sent[Len(sent)] = [code |-> 500, content |-> reply.content,
                                from |-> "badheader"]
          /\ \A i \in 1..(Len(sent) - 1) : sent[i].from = "dispatch"
          /\ out = Rendered(sent)

\* The 500 reply was written and the connection terminated while a whole
\* well-formed request was still unread.
C3_Witness ==
    /\ why = "badheader"
    /\ rpos < Len(input)
    /\ RequestPaths(input, rpos, FALSE, <<>>).ok

(***************************************************************************)
(* C4.                                                                     *)
(***************************************************************************)
\* C4: a request line that does not parse into three tokens, or whose path
\* does not decode, terminates handle_client at once: reading that line was
\* the last operation on the stream (no header line is read, no reply is
\* written) and the stream holds only the responses to the earlier requests.
C4_SilentReject ==
    /\ (lastOp = "read_request" /\ ~ioFailed /\ lastN > 0 /\ Rejected(buffer))
          => /\ pc = "Terminated"
             /\ why \in {"badline", "baddecode"}
    /\ why \in {"badline", "baddecode"} =>
          /\ pc = "Terminated"
          /\ result = "Ok"
          /\ lastOp = "read_request"
          /\ Rejected(buffer)
          /\ (why = "badline") = ~parse_request_line(Trim(buffer)).ok
          /\ Len(sent) = started - 1
          /\ \A i \in 1..Len(sent) : sent[i].from = "dispatch"
          /\ out = Rendered(sent)

\* A path that does not decode, after one answered request and with a
\* malformed header line following it unread.
C4_Witness ==
    /\ why = "baddecode"
    /\ Len(sent) = 1
    /\ rpos < Len(input)
    /\ Malformed(LineAt(input, rpos))

(***************************************************************************)
(* C5.                                                                     *)
(***************************************************************************)
\* C5: a read_line that returns 0 terminates handle_client with no reply:
\* the stream holds the complete responses to the requests answered before,
\* one per request when the end came in place of a request line, and none
\* for the last request when it came inside its header block; with no
\* request read at all the stream holds nothing.
C5_Eof ==
    /\ (lastOp \in {"read_request", "read_header"} /\ ~ioFailed /\ lastN = 0)
          => why = "eof"
    /\ why = "eof" =>
          /\ pc = "Terminated"
          /\ result = "Ok"
          /\ lastN = 0
          /\ rpos = Len(input)
          /\ lastOp \in {"read_request", "read_header"}
          /\ lastOp = "read_request" => Len(sent) = started
          /\ lastOp = "read_header" => Len(sent) = started - 1
          /\ \A i \in 1..Len(sent) : sent[i].from = "dispatch"
          /\ out = Rendered(sent)
          /\ started = 0 => out = <<>>

\* The end of the stream inside the header block of the second request,
\* after the first was answered.
C5_Witness ==
    /\ why = "eof"
    /\ lastOp = "read_header"
    /\ started = 2
    /\ Len(sent) = 1

(***************************************************************************)
(* C6.                                                                     *)
(***************************************************************************)
\* C6: the reply of Dispatching is 200 with the bytes gen_fs_page produced,
\* 404 with "<html>404</html>" on NotFound, 500 with "<html>500</html>" on
\* any other error; once it is written handle_client awaits the next
\* request line.
C6_DispatchReply ==
    /\ reply.from = "dispatch" =>
          /\ fsResult.kind \in {"Ok", "NotFound", "Other"}
          /\ fsResult.kind = "Ok" =>
                reply.code = 200 /\ reply.content = fsResult.bytes
          /\ fsResult.kind = "NotFound" =>
                /\ reply.code = 404
                /\ reply.content = <<60, 104, 116, 109, 108, 62, 52, 48, 52,
                                     60, 47, 104, 116, 109, 108, 62>>
          /\ fsResult.kind = "Other" =>
                /\ reply.code = 500
                /\ reply.content = <<60, 104, 116, 109, 108, 62, 53, 48, 48,
                                     60, 47, 104, 116, 109, 108, 62>>
    /\ (lastOp = "flush" /\ ~ioFailed /\ reply.from = "dispatch") =>
          /\ pc = "AwaitingRequestLine"
          /\ result = "running"
          /\ sent[Len(sent)] = [code |-> reply.code, content |-> reply.content,
                                from |-> "dispatch"]

\* A 404 was written for a path the filesystem does not hold and the loop
\* awaits the next request line.
C6_Witness ==
    /\ lastOp = "flush"
    /\ ~ioFailed
    /\ reply.from = "dispatch"
    /\ fsResult.kind = "NotFound"
    /\ pc = "AwaitingRequestLine"

(***************************************************************************)
(* C7.                                                                     *)
(***************************************************************************)
\* C7: once an operation on the stream has failed, handle_client has
\* returned the error: it is terminated, so that no read, write or reply
\* follows the failure.
C7_IoErrorIsFatal ==
    ioFailed =>
        /\ pc = "Terminated"
        /\ result = "Err"
        /\ why = "io"

\* The write of a reply's body failed while input was still unread.
C7_Witness ==
    /\ ioFailed
    /\ lastOp = "write_body"
    /\ rpos < Len(input)

(***************************************************************************)
(* C8.                                                                     *)
(***************************************************************************)
\* C8: every code handle_client passes to write_reply is 200, 404 or 500,
\* each of them has a reason phrase, and handle_client never panics.
C8_NoPanic ==
    /\ result # "Panic"
    /\ \A c \in StatusCodes : status_code_to_string(c) # Panic
    /\ reply.from # "none" => reply.code \in StatusCodes
    /\ \A i \in 1..Len(sent) : sent[i].code \in StatusCodes

\* A 404 and a 500 of the filesystem responder were both written.
C8_Witness ==
    /\ Len(sent) = 2
    /\ sent[1].code = 404
    /\ sent[2].code = 500
    /\ sent[2].from = "dispatch"

(***************************************************************************)
(* C9.                                                                     *)
(***************************************************************************)
\* C9: the bytes write_reply has put on the stream when its two writes are
\* done are the status line, the Content-Length header with the length of
\* the body, the blank line and the body, after the responses written
\* before.
C9_ResponseFormat ==
    (pc # "WritingBody" /\ ~ioFailed) =>
        /\ out = Rendered(sent)
        /\ pc = "Flushing" =>
              sent[Len(sent)] = [code |-> reply.code,
                                 content |-> reply.content,
                                 from |-> reply.from]

\* A directory listing was written as the second response.
C9_Witness ==
    /\ pc = "Flushing"
    /\ Len(sent) = 2
    /\ reply.code = 200
    /\ Len(reply.content) > 99

(***************************************************************************)
(* C10.                                                                    *)
(***************************************************************************)
\* C10: handle_client eventually terminates.
C10_Terminates == <>(pc = "Terminated")

\* The loop ran twice and ended at the end of the stream.
C10_Witness ==
    /\ pc = "Terminated"
    /\ why = "eof"
    /\ Len(sent) = 2

(***************************************************************************)
(* C11.                                                                    *)
(***************************************************************************)
\* The state of task i: of the one the variables belong to, or of the
\* suspended one.
TaskState(i) == IF running = i THEN Park ELSE parked

\* What a connection handled alone shows at any moment: its stream holds the
\* complete responses followed by a prefix of the one being written; every
\* reply of the filesystem responder answers the request of the same
\* position on this connection; and when the client's input is a sequence
\* of well-formed requests and no operation on the stream failed, the
\* requests accepted are the first of them and at the end every one has its
\* response and the stream holds nothing else.
AsAlone(t) ==
    /\ IsPrefix(Rendered(t.sent), t.out)
    /\ Len(t.sent) <= Len(t.reqs)
    /\ \A k \in 1..Len(t.sent) :
          \/ Answers(t.sent[k], t.reqs[k])
          \/ /\ t.sent[k].from = "badheader"
             /\ k = Len(t.sent)
             /\ Malformed(t.line)
    /\ t.path = (IF t.reqs = <<>> THEN <<>> ELSE t.reqs[Len(t.reqs)])
    /\ LET w == RequestPaths(t.input, 0, FALSE, <<>>) IN
       (w.ok /\ ~t.ioFailed) =>
          /\ IsPrefix(t.reqs, w.val)
          /\ t.pc = "Terminated" =>
                /\ t.reqs = w.val
                /\ Len(t.sent) = Len(w.val)
                /\ t.out = Rendered(t.sent)

\* A step changes the state of the task that takes it and of no other task;
\* the only other change is the spawning of a task for a new connection.
OneTaskSteps ==
    \A i \in 1..2 :
        (TaskState(i))' # TaskState(i) =>
            \/ i = running /\ running' = running
            \/ /\ TaskState(i) = NoTask
               /\ \E inp \in ConnInputs(i) : (TaskState(i))' = Fresh(inp)

\* C11: with two connections handled concurrently, under every interleaving
\* of the steps of their tasks, each connection shows what it shows when
\* handled alone, and a step of one task - its termination and its I/O
\* error included - leaves the state and the stream of the other unchanged.
C11_Independent ==
    /\ [](\A i \in 1..2 : TaskState(i) # NoTask => AsAlone(TaskState(i)))
    /\ [][OneTaskSteps]_vars

\* One connection has ended on a failed write of a body while the other,
\* asking for another resource, has its whole response written.
C11_Witness ==
    /\ parked # NoTask
    /\ parked.pc = "Terminated"
    /\ parked.ioFailed
    /\ parked.lastOp = "write_body"
    /\ parked.out # <<>>
    /\ pc = "Flushing"
    /\ Len(sent) = 1
    /\ path # parked.path
    /\ running = 1

(***************************************************************************)
(* C12.                                                                    *)
(***************************************************************************)
\* C12: for every string s, also one with a character whose UTF-8 byte is
\* below 0x10, decode_url(encode_url(s)) is Some(s).
C12_RoundTrip ==
    call.fn = "decode_encoded" => call.ret = Some(call.arg)

(***************************************************************************)
(* C13.                                                                    *)
(***************************************************************************)
\* Only printable ASCII characters (0x20..0x7E), none of them '%'.
Printable(s) == \A i \in 1..Len(s) : s[i] \in (32..126) \ {37}

\* C13: for every string s of printable ASCII characters other than '%',
\* decode_url(encode_url(s)) is Some(s).
C13_PrintableRoundTrip ==
    (call.fn = "decode_encoded" /\ Printable(call.arg))
        => call.ret = Some(call.arg)

\* A printable string with characters that are escaped (a space and '+')
\* came back.
C13_Witness ==
    /\ call.fn = "decode_encoded"
    /\ call.arg = <<97, 32, 43, 49>>  \* "a +1"
    /\ call.ret = Some(call.arg)

(***************************************************************************)
(* C14.                                                                    *)
(***************************************************************************)
IsHexDigit(c) == c \in (48..57) \cup (65..70) \cup (97..102)

\* Some '%' of s is not followed by two hexadecimal digits.
HasMalformedEscape(s) ==
    \E i \in 1..Len(s) :
        /\ s[i] = 37
        /\ ~(i + 2 <= Len(s) /\ IsHexDigit(s[i + 1]) /\ IsHexDigit(s[i + 2]))

\* C14: decode_url returns None whenever a '%' of its input is not
\* followed by two hexadecimal digits ("%", "%A", "%G1", "%+1"), and an
\* input without '%' is returned unchanged.
C14_MalformedEscapeIsNone ==
    call.fn = "decode_url" =>
        /\ HasMalformedEscape(call.arg) => call.ret = None
        /\ (\A i \in 1..Len(call.arg) : call.arg[i] # 37)
              => call.ret = Some(call.arg)

(***************************************************************************)
(* C15.                                                                    *)
(***************************************************************************)
\* The bytes of the k triplets "%XX" that start at index i of s; None when
\* one of them is not there: a character other than '%', the end of the
\* input, or two characters that `read` takes for no byte.
Triplets(s, i, k) ==
    IF \A j \in 0..(k - 1) :
          /\ i + 3 * j <= Len(s)
          /\ s[i + 3 * j] = 37
          /\ read(s, i + 3 * j + 1) # NoByte
    THEN Some([j \in 1..k |-> read(s, i + 3 * (j - 1) + 1)])
    ELSE None

\* Some(cs \o r.val) when r is Some, None otherwise.
Prefixed(cs, r) == IF r.ok THEN Some(cs \o r.val) ELSE None

\* What C15 says the decoding of s from index i on is.
RECURSIVE Decoded(_, _)
Decoded(s, i) ==
    IF i > Len(s) THEN Some(<<>>)
    ELSE IF s[i] # 37 THEN Prefixed(<<s[i]>>, Call2(Decoded, s, i + 1))
    ELSE IF read(s, i + 1) = NoByte THEN None
    ELSE IF read(s, i + 1) < 127
    THEN Prefixed(<<read(s, i + 1)>>, Call2(Decoded, s, i + 3))
    ELSE LET valid == {k \in 1..((Len(s) - i + 1) \div 3) :
                          /\ Triplets(s, i, k).ok
                          /\ from_utf8(Triplets(s, i, k).val).ok}
         IN
         IF valid = {} THEN None
         ELSE LET k == CHOOSE n \in valid : \A m \in valid : n <= m IN
              Prefixed(from_utf8(Triplets(s, i, k).val).val,
                       Call2(Decoded, s, i + 3 * k))

\* C15: in decode_url a decoded byte below 127 is appended as one
\* character; a decoded byte of 127 or more starts a sequence of triplets
\* that ends with the first triplet at which the bytes are valid UTF-8,
\* whose characters are appended; when a character other than '%' or the
\* end of the input comes before that, the result is None.
C15_MultiByte ==
    call.fn = "decode_url" => call.ret = Call2(Decoded, call.arg, 1)

\* "%E4%B8%AD" was decoded to the one character U+4E2D.
C15_Witness ==
    /\ call.fn = "decode_url"
    /\ call.arg = <<37, 69, 52, 37, 66, 56, 37, 65, 68>>
    /\ call.ret = Some(<<20013>>)

(***************************************************************************)
(* C16.                                                                    *)
(***************************************************************************)
\* ASCII letters, ASCII digits, '-', '_', '.', '~'.
Unreserved == (65..90) \cup (97..122) \cup (48..57) \cup {45, 95, 46, 126}

UpperHexDigits == (48..57) \cup (65..70)

\* The digits "0123456789ABCDEF".
HexChars ==
    <<48, 49, 50, 51, 52, 53, 54, 55, 56, 57, 65, 66, 67, 68, 69, 70>>

\* '%' and the byte b in upper-case hexadecimal: one digit below 0x10, two
\* otherwise.
Escape(b) ==
    IF b < 16 THEN <<37, HexChars[b + 1]>>
    ELSE <<37, HexChars[(b \div 16) + 1], HexChars[(b % 16) + 1]>>

\* What C16 says encode_url makes of the character ch.
Encoded(ch) ==
    IF ch \in Unreserved THEN <<ch>>
    ELSE LET bytes == encode_utf8(ch) IN
         Concat([j \in 1..Len(bytes) |-> Escape(bytes[j])])

\* C16: encode_url copies the unreserved characters and replaces every
\* other character by the escapes of the bytes of its UTF-8 encoding,
\* without zero padding; its output has only characters of
\* [A-Za-z0-9-_.~%] and every '%' in it is followed by an upper-case
\* hexadecimal digit.
C16_EncodeFormat ==
    call.fn = "encode_url" =>
        /\ call.ret = Concat([i \in 1..Len(call.arg) |-> Encoded(call.arg[i])])
        /\ \A i \in 1..Len(call.ret) :
              /\ call.ret[i] \in Unreserved \cup {37}
              /\ call.ret[i] = 37 =>
                    /\ i < Len(call.ret)
                    /\ call.ret[i + 1] \in UpperHexDigits

\* A line feed and U+4E2D were encoded as "%A%E4%B8%AD".
C16_Witness ==
    /\ call.fn = "encode_url"
    /\ call.arg = <<10, 20013>>
    /\ call.ret = <<37, 65, 37, 69, 52, 37, 66, 56, 37, 65, 68>>

(***************************************************************************)
(* C17.                                                                    *)
(***************************************************************************)
\* The positions of the space characters of s.
Spaces(s) == {i \in 1..Len(s) : s[i] = 32}

\* C17: parse_request_line succeeds exactly when splitting the line on
\* single spaces gives three tokens, that is when the line has two spaces;
\* it then returns the text before the first space as method and the text
\* between the two spaces as path, whatever they are.
C17_ThreeTokens ==
    call.fn = "parse_request_line" =>
        /\ call.ret.ok <=> Cardinality(Spaces(call.arg)) = 2
        /\ call.ret.ok =>
              \E i \in Spaces(call.arg) : \E j \in Spaces(call.arg) :
                  /\ i < j
                  /\ call.ret.val.method = Slice(call.arg, 1, i - 1)
                  /\ call.ret.val.path = Slice(call.arg, i + 1, j - 1)

\* "GET /a/b HTTP/1.1" was parsed into the method "GET" and the path "/a/b".
C17_Witness ==
    /\ call.fn = "parse_request_line"
    /\ call.arg = <<71, 69, 84, 32, 47, 97, 47, 98, 32,
                    72, 84, 84, 80, 47, 49, 46, 49>>
    /\ call.ret = Some([method |-> <<71, 69, 84>>, path |-> <<47, 97, 47, 98>>])

(***************************************************************************)
(* C18.                                                                    *)
(***************************************************************************)
\* The link target of the entry `name` in the listing of `dir`.
LinkTarget(dir, name) ==
    (IF dir # <<>> /\ dir[Len(dir)] = 47 THEN dir ELSE dir \o <<47>>)
        \o encode_url(name)

\* <li><a href="target">text</a></li>
LiElement(target, text) ==
    <<60, 108, 105, 62, 60, 97, 32, 104, 114, 101, 102, 61, 34>>  \* "<li><a href=\""
        \o target \o <<34, 62>> \o text
        \o <<60, 47, 97, 62, 60, 47, 108, 105, 62>>  \* "</a></li>"

\* How many times pat occurs in s.
Occurrences(s, pat) == Cardinality({i \in 1..Len(s) : MatchesAt(s, pat, i)})

\* C18: for a directory gen_fs_page returns a page with one <li> element
\* per entry, in the order of the enumeration, whose link target is the
\* path, a '/' unless the path ends in one, and encode_url of the entry's
\* name, and whose text is the entry's name; for a file it returns the
\* file's contents.
C18_DirectoryPage ==
    (call.fn = "gen_fs_page" /\ call.ret.kind = "Ok") =>
        LET e == FsEntry(call.arg) IN
        /\ e.kind \in {"dir", "file"}
        /\ e.kind = "file" => call.ret.bytes = e.bytes
        /\ e.kind = "dir" =>
              /\ call.ret.bytes =
                    into_bytes(
                        PageHead
                        \o Concat([i \in 1..Len(e.names) |->
                                      LiElement(LinkTarget(call.arg, e.names[i]),
                                                e.names[i])])
                        \o PageTail)
              /\ Occurrences(call.ret.bytes, <<60, 108, 105, 62>>) = Len(e.names)

\* The listing of "/d/", a path that ends in '/'.
C18_Witness ==
    /\ call.fn = "gen_fs_page"
    /\ call.arg = <<47, 100, 47>>
    /\ call.ret.kind = "Ok"
    /\ Occurrences(call.ret.bytes, <<100, 47, 98, 37, 50, 48, 99>>) = 1  \* "d/b%20c"

(***************************************************************************)
(* C19.                                                                    *)
(***************************************************************************)
\* Where handle_client is within a request and what it has done for it.
OrderedState ==
    \* the filesystem responder is reached by the blank line that ends the
    \* header block of a request whose line parsed and whose path decoded,
    \* before any reply to that request
    /\ pc = "Dispatching" =>
          /\ lastOp = "read_header"
          /\ lastN > 0
          /\ Trim(line) = <<>>
          /\ ~Rejected(buffer)
          /\ Len(reqs) = started
          /\ path = reqs[started]
          /\ Len(sent) = started - 1
    \* the header block is read only for such a request
    /\ pc = "ReadingHeaders" =>
          /\ ~Rejected(buffer)
          /\ Len(reqs) = started
          /\ Len(sent) = started - 1
    \* a malformed header line is answered by the bad-header reply, whatever
    \* the filesystem holds at the path
    /\ (lastOp = "read_header" /\ ~ioFailed /\ lastN > 0 /\ Malformed(line))
          => /\ pc = "WritingHead"
             /\ reply.from = "badheader"
             /\ reply.code = 500
             /\ Len(sent) = started - 1
    \* a request line that is rejected gets no reply and its header block
    \* is not read
    /\ why \in {"badline", "baddecode"} =>
          /\ lastOp = "read_request"
          /\ Len(sent) = started - 1
          /\ out = Rendered(sent)

\* The order of the steps.
OrderedStep ==
    \* the header block follows a request line
    /\ (pc' = "ReadingHeaders" /\ pc # "ReadingHeaders")
          => pc = "AwaitingRequestLine" /\ started' = started + 1
    \* the filesystem responder follows the header block
    /\ pc' = "Dispatching" => pc = "ReadingHeaders" /\ started' = started
    \* and is invoked only there, once, and followed by the reply
    /\ fsResult' # fsResult => pc = "Dispatching"
    /\ pc = "Dispatching" =>
          /\ pc' = "WritingHead"
          /\ reply'.from = "dispatch"
          /\ started' = started
    \* a reply follows the filesystem responder or a malformed header line
    /\ (pc' = "WritingHead" /\ pc = "ReadingHeaders")
          => reply'.from = "badheader" /\ fsResult' = fsResult
    /\ pc' = "WritingHead" => pc \in {"Dispatching", "ReadingHeaders"}
    \* the next request line is read after the reply
    /\ pc' = "AwaitingRequestLine" => pc = "Flushing" /\ Len(sent) = started

\* C19: within a request the steps run in the order request line, path
\* decoding, header block, filesystem responder, reply; the filesystem
\* responder is invoked at most once per request and only after the blank
\* line of a well-formed header block; a malformed header line gets the
\* bad-header reply whether or not the path exists, and a path that does
\* not decode gets no reply whatever follows it.
C19_StepOrder == []OrderedState /\ [][OrderedStep]_vars

\* The bad-header reply was written for a path the filesystem does not
\* hold, and the filesystem responder was never invoked on the connection.
C19_Witness ==
    /\ why = "badheader"
    /\ FsEntry(path).kind = "absent"
    /\ fsResult.kind = "None"

(***************************************************************************)
(* C20.                                                                    *)
(***************************************************************************)
\* The last request read has its reply, which is one of the filesystem
\* responder, and the next request line is awaited.
LastRequestAnswered ==
    IF pc = "AwaitingRequestLine" /\ started > 0 /\ Len(sent) = started
    THEN /\ sent[started].from = "dispatch"
         /\ sent[started].code \in StatusCodes
    ELSE FALSE

\* C20: a request that has reached the filesystem responder is eventually
\* answered by a reply with status 200, 404 or 500, unless an operation on
\* the stream fails; no request has more than one reply, and a request
\* line is awaited only when every request read has its reply.
C20_Answered ==
    /\ [](Len(sent) <= started)
    /\ [](pc = "AwaitingRequestLine" => Len(sent) = started)
    /\ (pc = "Dispatching") ~> (ioFailed \/ LastRequestAnswered)

\* The second request of the connection was answered and the next request
\* line is awaited.
C20_Witness ==
    /\ pc = "AwaitingRequestLine"
    /\ ~ioFailed
    /\ started = 2
    /\ Len(sent) = 2
    /\ sent[2].from = "dispatch"
    /\ sent[2].code = 404

=============================================================================
